---- MODULE Spec2Model ----
(***************************************************************************)
(* A model of the detention pipeline: clean_data.py turns the raw table of *)
(* booking events into the cleaned event table, build_panel.py expands the *)
(* cleaned table into one row per detained day.  The table is the set of   *)
(* its rows (a row is a record keyed by the source's column names); every  *)
(* block of the two scripts is one action, taken in the scripts' order.    *)
(*                                                                         *)
(* Time is counted in minutes (clean_data.py truncates every timestamp to  *)
(* the minute before it compares any two); TicksPerDay minutes make a day. *)
(* A polars null is the value Null (numbers), NullId (identifiers) or      *)
(* NoReason (strings).  Where polars leaves the order of equal sort keys   *)
(* open, the action chooses any order that is sorted.                      *)
(***************************************************************************)
EXTENDS Integers, Sequences, FiniteSets, TLC

VARIABLES raw, df, clean, panel, pc

vars == <<raw, df, clean, panel, pc>>

(* ---------------------------------------------------------------- nulls *)

Null == -1000
NullId == <<>>
NoReason == "null"
Transferred == "Transferred"
Removed == "Removed"

(* ---------------------------------------------------------------- bounds *)

TicksPerDay == 2
MaxTime == 4

Times == 0..MaxTime

(* ------------------------------------------------------- polars helpers *)

\* pl.col(datetime).cast(pl.Date)
DateOf(t) == IF t = Null THEN Null ELSE t \div TicksPerDay

\* a < b on two columns: null when either side is null, and a filter or a
\* when() takes null as not true
Lt(a, b) == a # Null /\ b # Null /\ a < b

Max(S) == CHOOSE x \in S : \A y \in S : y <= x
Min(S) == CHOOSE x \in S : \A y \in S : x <= y

\* .max() / .min() of a column: nulls are skipped, all-null gives null
ColMax(S) == IF S \ {Null} = {} THEN Null ELSE Max(S \ {Null})
ColMin(S) == IF S \ {Null} = {} THEN Null ELSE Min(S \ {Null})

\* the rows of a table in some order: every sequence that lists each row once
Perms(S) ==
  LET n == Cardinality(S)
  IN {f \in [1..n -> S] : \A i, j \in 1..n : i # j => f[i] # f[j]}

\* df.sort(...): the orders in which no row comes before one that sorts
\* before it (NotAfter(a, b): a sorts no later than b); ties in any order
SortedSeqs(S, NotAfter(_, _)) ==
  {f \in Perms(S) : \A i \in 1..(Len(f) - 1) : NotAfter(f[i], f[i + 1])}

\* the position of row r in the frame order ord
Pos(ord, r) == CHOOSE i \in 1..Len(ord) : ord[i] = r

\* .shift(-1).over(group): the index of the next row of r's group, 0 for none
NextIdx(ord, r, Same(_, _)) ==
  LET c == {j \in (Pos(ord, r) + 1)..Len(ord) : Same(r, ord[j])}
  IN IF c = {} THEN 0 ELSE Min(c)

\* .last().over(group, order_by=...): the last row of r's group
LastRow(ord, r, Same(_, _)) ==
  ord[Max({j \in 1..Len(ord) : Same(r, ord[j])})]

\* the 1-based position of r among the rows of its group (ordinal rank)
GroupPos(ord, r, Same(_, _)) ==
  Cardinality({j \in 1..Pos(ord, r) : Same(r, ord[j])})

\* rank(method="dense") of value v among the values vs
DenseRank(v, vs) == Cardinality({w \in vs : w <= v})

SamePerson(a, b) == a.unique_identifier = b.unique_identifier
SameStay(a, b) == a.stay_id = b.stay_id

\* with_columns: the row r with the columns of upd added or replaced
With(r, upd) == upd @@ r

(* ------------------------------------------------------------ raw table *)

\* one row of data/detentions_raw.parquet; stay_book_out_date is a column of
\* the raw file, the calendar date of stay_book_out_date_time
RawRow(u, by, f, sbi, sbo, srr, dbi, dbo, drr) ==
  [unique_identifier |-> u, birth_year |-> by, detention_facility_code |-> f,
   stay_book_in_date_time |-> sbi, stay_book_out_date_time |-> sbo,
   stay_book_out_date |-> DateOf(sbo), stay_release_reason |-> srr,
   detention_book_in_date_time |-> dbi, detention_book_out_date_time |-> dbo,
   detention_release_reason |-> drr]

(* -------------------------------------------------- clean_data.py 49-96 *)

\* lines 53-70: the date columns and the detention id
AddDatesAndDetentionId(r) ==
  With(r, [detention_book_in_date |-> DateOf(r.detention_book_in_date_time),
           detention_book_out_date |-> DateOf(r.detention_book_out_date_time),
           stay_book_in_date |-> DateOf(r.stay_book_in_date_time),
           detention_id |-> IF r.unique_identifier = Null THEN NullId
                            ELSE <<r.unique_identifier, r.detention_facility_code,
                                   r.detention_book_in_date_time>>])

\* lines 76-83: people with a stay (person, stay start date) that has more
\* than one stay book-out time (n_unique counts null as a value)
AmbiguousStayPeople(t) ==
  {r.unique_identifier : r \in
     {r \in t : Cardinality({q.stay_book_out_date_time : q \in
        {q \in t : /\ q.unique_identifier = r.unique_identifier
                   /\ q.stay_book_in_date = r.stay_book_in_date}}) > 1}}

\* an anti join on unique_identifier: a null key matches nothing and stays
AntiJoinPeople(t, people) ==
  {r \in t : r.unique_identifier = Null \/ r.unique_identifier \notin people}

StayIdOf(r) ==
  IF r.unique_identifier = Null THEN NullId
  ELSE <<r.unique_identifier, r.stay_book_in_date>>

\* lines 49-96
CreateIdsTable(t) ==
  LET dated == {AddDatesAndDetentionId(r) : r \in t}
      kept == AntiJoinPeople(dated, AmbiguousStayPeople(dated))
      ided == {With(r, [stay_id |-> StayIdOf(r)]) : r \in kept}
  IN {r \in ided : r.unique_identifier # Null}

CreateIds ==
  /\ pc = "raw"
  /\ df' = CreateIdsTable(df)
  /\ pc' = "ids"
  /\ UNCHANGED <<raw, clean, panel>>

(* ------------------------------------------------- clean_data.py 98-132 *)

\* lines 99-106: stay ids with more than one stay book-out date
DuplicateStayIds(t) ==
  {r.stay_id : r \in
     {r \in t : Cardinality({q.stay_book_out_date : q \in
        {q \in t : q.stay_id = r.stay_id}}) > 1}}

RemoveDuplicateStays(t) == {r \in t : r.stay_id \notin DuplicateStayIds(t)}

\* line 112: one row per (person, stay book-in time, stay book-out time)
StaysOf(t) ==
  {[unique_identifier |-> r.unique_identifier,
    stay_book_in_date_time |-> r.stay_book_in_date_time,
    stay_book_out_date_time |-> r.stay_book_out_date_time] : r \in t}

\* stays.sort("unique_identifier", "stay_book_in_date_time")
StayOrder(a, b) ==
  \/ a.unique_identifier < b.unique_identifier
  \/ /\ a.unique_identifier = b.unique_identifier
     /\ a.stay_book_in_date_time <= b.stay_book_in_date_time

\* the overlap test on calendar dates instead of times: it misses a stay that
\* begins on the day the one before it ends, before that one's book-out
OverlapPeopleByDate(ord) ==
  {ord[i].unique_identifier : i \in
     {i \in 1..Len(ord) :
        LET n == NextIdx(ord, ord[i], SamePerson)
        IN n # 0 /\ Lt(DateOf(ord[n].stay_book_in_date_time),
                       DateOf(ord[i].stay_book_out_date_time))}}

\* lines 115-129 on the stays in the sorted order ord: the people with a stay
\* whose book-out is after the next stay's book-in
OverlapPeopleIn(ord) ==
  {ord[i].unique_identifier : i \in
     {i \in 1..Len(ord) :
        LET n == NextIdx(ord, ord[i], SamePerson)
        IN n # 0 /\ Lt(ord[n].stay_book_in_date_time, ord[i].stay_book_out_date_time)}}

\* lines 111-132
RemoveOverlappingStays(t, ord) == AntiJoinPeople(t, OverlapPeopleIn(ord))

FilterStays ==
  /\ pc = "ids"
  /\ \E ord \in SortedSeqs(StaysOf(RemoveDuplicateStays(df)), StayOrder) :
       df' = RemoveOverlappingStays(RemoveDuplicateStays(df), ord)
  /\ pc' = "stays"
  /\ UNCHANGED <<raw, clean, panel>>

(* ------------------------------------------------ clean_data.py 134-144 *)

\* sort("detention_book_out_date_time", descending, nulls first): a comes
\* no later than b
OutFirst(a, b) ==
  \/ a.detention_book_out_date_time = Null
  \/ /\ b.detention_book_out_date_time # Null
     /\ a.detention_book_out_date_time >= b.detention_book_out_date_time

\* lines 135-138: a table that keeps, for each detention id, one of the rows
\* the descending sort can put first
IsDedup(t, u) ==
  /\ u \subseteq t
  /\ \A r \in t : \E q \in u : q.detention_id = r.detention_id
  /\ \A q \in u : \A r \in t :
        r.detention_id = q.detention_id => (OutFirst(q, r) /\ (r \in u => r = q))

\* lines 141-144
RemoveZeroSecond(t) ==
  {r \in t : \/ r.detention_book_out_date_time = Null
             \/ r.detention_book_out_date_time # r.detention_book_in_date_time}

Deduplicate ==
  /\ pc = "stays"
  /\ \E u \in SUBSET df :
       /\ IsDedup(df, u)
       /\ df' = RemoveZeroSecond(u)
  /\ pc' = "dedup"
  /\ UNCHANGED <<raw, clean, panel>>

(* ------------------------------------------------ clean_data.py 146-190 *)

\* lines 147-155: the dense rank of the stay start date within the person
AddStayNumber(t) ==
  {With(r, [stay_number |->
       DenseRank(r.stay_book_in_date,
                 {q.stay_book_in_date : q \in {q \in t : SamePerson(q, r)}})]) :
     r \in t}

\* lines 168-173: a detention release reason that is neither null nor Transferred
NonTransferReason(r) ==
  IF r.detention_release_reason # NoReason /\ r.detention_release_reason # Transferred
  THEN r.detention_release_reason
  ELSE NoReason

\* sort("detention_book_in_date_time")
BookInOrder(a, b) == a.detention_book_in_date_time <= b.detention_book_in_date_time

\* lines 176-179: .last() over the stay in book-in order, which is the value
\* of the stay's last row, null or not
LastNonTransferReason(ord, r) == NonTransferReason(LastRow(ord, r, SameStay))

\* lines 183-189
BackfilledReason(srr, ntr) ==
  IF (srr = Transferred \/ srr = NoReason) /\ ntr # NoReason THEN ntr ELSE srr

\* lines 166-190, ord being the rows in book-in order; pre_backfill keeps the
\* stay reason the row held before
Backfill(ord) ==
  {With(ord[i], [stay_release_reason |->
                   BackfilledReason(ord[i].stay_release_reason,
                                    LastNonTransferReason(ord, ord[i])),
                 pre_backfill |-> ord[i].stay_release_reason]) : i \in 1..Len(ord)}

NumberAndBackfill ==
  /\ pc = "dedup"
  /\ \E ord \in SortedSeqs(AddStayNumber(df), BookInOrder) : df' = Backfill(ord)
  /\ pc' = "numbered"
  /\ UNCHANGED <<raw, clean, panel>>

(* ------------------------------------------------ clean_data.py 192-237 *)

SameNumberedStay(a, b) == SamePerson(a, b) /\ a.stay_number = b.stay_number

\* line 196: (stay_release_reason.first() == "Removed"), null for a null reason
RemovedFlag(r) ==
  IF r.stay_release_reason = NoReason THEN "null"
  ELSE IF r.stay_release_reason = Removed THEN "true" ELSE "false"

\* firsts holds the first row of every (person, stay number) group
IsFirsts(t, firsts) ==
  /\ firsts \subseteq t
  /\ \A r \in t : Cardinality({q \in firsts : SameNumberedStay(q, r)}) = 1

\* lines 202-208: cum_max of the flags in stay order, shifted down by one stay
\* with False filled in; cum_max leaves a null flag null
PreviouslyRemoved(firsts, r) ==
  LET prev == {q \in firsts : SamePerson(q, r) /\ q.stay_number < r.stay_number}
  IN IF prev = {} THEN "false"
     ELSE LET p == CHOOSE q \in prev : \A x \in prev : x.stay_number <= q.stay_number
          IN IF RemovedFlag(p) = "null" THEN "null"
             ELSE IF \E q \in prev : RemovedFlag(q) = "true" THEN "true" ELSE "false"

\* lines 192-215
AddPreviouslyRemoved(t, firsts) ==
  {With(r, [previously_removed |-> PreviouslyRemoved(firsts, r)]) : r \in t}

\* lines 218-226: people with open stays on more than one stay start date
MultipleOpenStayPeople(t) ==
  {r.unique_identifier : r \in
     {r \in t : Cardinality({q.stay_book_in_date : q \in
        {q \in t : SamePerson(q, r) /\ q.stay_book_out_date = Null}}) > 1}}

\* lines 231-235: people with more than one stay id that ends in a transfer
MultipleTransferPeople(t) ==
  {r.unique_identifier : r \in
     {r \in t : Cardinality({q.stay_id : q \in
        {q \in t : SamePerson(q, r) /\ q.stay_release_reason = Transferred}}) > 1}}

\* lines 217-228 alone, without the screen for several transferred stays
DropOpenOnly(t) == AntiJoinPeople(t, MultipleOpenStayPeople(t))

\* lines 217-237
DropOpenAndTransfer(t) ==
  LET t1 == AntiJoinPeople(t, MultipleOpenStayPeople(t))
  IN AntiJoinPeople(t1, MultipleTransferPeople(t1))

ScreenPeople ==
  /\ pc = "numbered"
  /\ \E firsts \in SUBSET df :
       /\ IsFirsts(df, firsts)
       /\ df' = DropOpenAndTransfer(AddPreviouslyRemoved(df, firsts))
  /\ pc' = "screened"
  /\ UNCHANGED <<raw, clean, panel>>

(* ------------------------------------------------ clean_data.py 239-318 *)

\* lines 240-245
TotalNumStays(t, r) == Max({q.stay_number : q \in {q \in t : SamePerson(q, r)}})

\* the id of the person's last stay instead of the following one
LastStayId(t, r) ==
  LET later == {q \in t : SamePerson(q, r) /\ q.stay_number > r.stay_number}
  IN IF later = {} THEN NullId
     ELSE (CHOOSE q \in later : \A x \in later : x.stay_number <= q.stay_number).stay_id

\* lines 249-261: the stay id that follows r's stay among the person's stays
\* in stay-number order, null after the last
NextStayId(t, r) ==
  LET later == {q \in t : SamePerson(q, r) /\ q.stay_number > r.stay_number}
  IN IF later = {} THEN NullId
     ELSE (CHOOSE q \in later : \A x \in later : q.stay_number <= x.stay_number).stay_id

\* lines 264-272
NullLastTransfer(srr, number, total) ==
  IF srr = Transferred /\ number = total THEN NoReason ELSE srr

\* lines 275-283
MergedStayId(r, srr, total, next) ==
  IF srr = Transferred /\ r.stay_number < total THEN next ELSE r.stay_id

\* lines 239-283; pre_merge keeps what the row held when the merge began
Reassign(t) ==
  {LET total == TotalNumStays(t, r)
       srr == NullLastTransfer(r.stay_release_reason, r.stay_number, total)
   IN With(r, [stay_release_reason |-> srr,
               stay_id |-> MergedStayId(r, srr, total, NextStayId(t, r)),
               pre_merge |-> [stay_id |-> r.stay_id,
                              stay_number |-> r.stay_number,
                              total_num_stays |-> total,
                              stay_release_reason |-> r.stay_release_reason,
                              stay_book_in_date_time |-> r.stay_book_in_date_time,
                              stay_book_out_date_time |-> r.stay_book_out_date_time]]) :
     r \in t}

\* order_by="stay_number"
StayNumberOrder(a, b) == a.stay_number <= b.stay_number

\* lines 285-310: the stay columns recomputed over the new stay ids; ord is
\* the rows in stay-number order
Reaggregate(ord) ==
  {LET r == ord[i]
       members == {ord[j] : j \in {j \in 1..Len(ord) : SameStay(r, ord[j])}}
       last == LastRow(ord, r, SameStay)
   IN With(r, [stay_book_in_date |-> ColMin({q.stay_book_in_date : q \in members}),
               stay_book_in_date_time |->
                 ColMin({q.stay_book_in_date_time : q \in members}),
               stay_book_out_date |-> last.stay_book_out_date,
               stay_book_out_date_time |-> last.stay_book_out_date_time,
               stay_release_reason |-> last.stay_release_reason]) :
     i \in 1..Len(ord)}

\* lines 313-318
Renumber(t) ==
  {With(r, [stay_number |->
       DenseRank(r.stay_book_in_date_time,
                 {q.stay_book_in_date_time : q \in {q \in t : SamePerson(q, r)}})]) :
     r \in t}

MergeTransfers ==
  /\ pc = "screened"
  /\ \E ord \in SortedSeqs(Reassign(df), StayNumberOrder) :
       df' = Renumber(Reaggregate(ord))
  /\ pc' = "merged"
  /\ UNCHANGED <<raw, clean, panel>>

(* ------------------------------------------------ clean_data.py 320-345 *)

\* sort("detention_book_in_date_time", descending=True)
BookInOrderDesc(a, b) == a.detention_book_in_date_time >= b.detention_book_in_date_time

\* lines 331-336
LastDetentionReason(r, rn) ==
  IF rn = 1 /\ r.stay_release_reason # NoReason /\ r.stay_release_reason # Transferred
  THEN r.stay_release_reason
  ELSE r.detention_release_reason

\* lines 322-338, ord being the rows in descending book-in order
RankDetentions(ord) ==
  {LET rn == GroupPos(ord, ord[i], SameStay)
   IN With(ord[i], [rn |-> rn,
                    detention_release_reason |-> LastDetentionReason(ord[i], rn)]) :
     i \in 1..Len(ord)}

\* lines 341-345
DropOpenNonFinal(t) ==
  LET drop == {r.stay_id : r \in
                 {r \in t : r.rn # 1 /\ r.detention_book_out_date_time = Null}}
  IN {r \in t : r.stay_id \notin drop}

RankAndDrop ==
  /\ pc = "merged"
  /\ \E ord \in SortedSeqs(df, BookInOrderDesc) :
       df' = DropOpenNonFinal(RankDetentions(ord))
  /\ pc' = "ranked"
  /\ UNCHANGED <<raw, clean, panel>>

(* ------------------------------------------------ clean_data.py 347-376 *)

\* lines 363-376
ClippedOut(out, next) == IF Lt(next, out) THEN next ELSE out

\* lines 348-376, ord being the rows in book-in order
ClipToNext(ord) ==
  {LET r == ord[i]
       n == NextIdx(ord, r, SameStay)
       next_time == IF n = 0 THEN Null ELSE ord[n].detention_book_in_date_time
       next_date == IF n = 0 THEN Null ELSE ord[n].detention_book_in_date
   IN With(r, [next_book_in_date_time |-> next_time,
               next_book_in_date |-> next_date,
               detention_book_out_date |->
                 ClippedOut(r.detention_book_out_date, next_date),
               detention_book_out_date_time |->
                 ClippedOut(r.detention_book_out_date_time, next_time)]) :
     i \in 1..Len(ord)}

ClipDetentions ==
  /\ pc = "ranked"
  /\ \E ord \in SortedSeqs(df, BookInOrder) : df' = ClipToNext(ord)
  /\ pc' = "clipped"
  /\ UNCHANGED <<raw, clean, panel>>

(* ------------------------------------------------ clean_data.py 378-486 *)

\* lines 386-395: people with a detention that is still open when the
\* person's next detention begins; ord is the rows in book-in order
CrossStayOverlapPeople(ord) ==
  {ord[i].unique_identifier : i \in
     {i \in 1..Len(ord) :
        LET n == NextIdx(ord, ord[i], SamePerson)
        IN n # 0 /\ Lt(ord[n].detention_book_in_date_time,
                       ord[i].detention_book_out_date_time)}}

\* lines 409-416
MultipleBirthYearPeople(t) ==
  {r.unique_identifier : r \in
     {r \in t : Cardinality({q.birth_year : q \in {q \in t : SamePerson(q, r)}}) > 1}}

\* lines 378-418
FinalScreen(t, ord) ==
  LET t1 == AntiJoinPeople(t, CrossStayOverlapPeople(ord))
  IN AntiJoinPeople(t1, MultipleBirthYearPeople(t1))

WriteClean ==
  /\ pc = "clipped"
  /\ \E ord \in SortedSeqs(df, BookInOrder) : df' = FinalScreen(df, ord)
  /\ clean' = df'
  /\ pc' = "cleaned"
  /\ UNCHANGED <<raw, panel>>

(* ------------------------------------------------- build_panel.py 9-48 *)

\* order_by="detention_book_in_date"
BookInDateOrder(a, b) == a.detention_book_in_date <= b.detention_book_in_date

\* lines 14-22
FillOpenBookOut(t) ==
  LET last_book_out == ColMax({r.detention_book_out_date : r \in t})
  IN {With(r, [in_detention |-> (r.stay_book_out_date = Null),
               detention_book_out_date |->
                 IF r.detention_book_out_date = Null THEN last_book_out
                 ELSE r.detention_book_out_date]) : r \in t}

\* the book-out date as the last day whatever follows
BookOutDate(out, next) == out

\* lines 33-44
LastDetentionDate(out, next) ==
  IF out # Null /\ next # Null /\ next = out THEN next - 1 ELSE out

\* lines 25-48, ord being the rows in book-in date order
AddLastDetentionDate(ord) ==
  LET t == {LET r == ord[i]
                n == NextIdx(ord, r, SamePerson)
                next == IF n = 0 THEN Null ELSE ord[n].detention_book_in_date
            IN With(r, [last_detention_date |->
                          LastDetentionDate(r.detention_book_out_date, next)]) :
            i \in 1..Len(ord)}
  IN {r \in t : /\ r.last_detention_date # Null
                /\ r.detention_book_in_date <= r.last_detention_date}

PreparePanel ==
  /\ pc = "cleaned"
  /\ \E ord \in SortedSeqs(FillOpenBookOut(clean), BookInDateOrder) :
       df' = AddLastDetentionDate(ord)
  /\ pc' = "prepared"
  /\ UNCHANGED <<raw, clean, panel>>

(* ----------------------------------------------- build_panel.py 88-140 *)

\* lines 90-97
DetentionStartDate(book_in, earliest_book_out) ==
  IF Lt(book_in, earliest_book_out) THEN earliest_book_out ELSE book_in

\* lines 107-114: pl.date_ranges then explode; an empty range explodes to
\* one row with a null date
ExplodedDates(start, last) ==
  IF start = Null \/ last = Null \/ start > last THEN {Null} ELSE start..last

\* lines 119-128
DaysSince(date, since) == IF date = Null \/ since = Null THEN Null ELSE date - since

\* lines 88-131
Expand(t) ==
  LET earliest_book_out == ColMin({r.detention_book_out_date : r \in t})
  IN UNION {
       {[unique_identifier |-> r.unique_identifier,
         stay_id |-> r.stay_id,
         detention_id |-> r.detention_id,
         detention_book_in_date |-> r.detention_book_in_date,
         in_detention |-> r.in_detention,
         detention_date |-> d,
         days_in_current_detention |-> DaysSince(d, r.detention_book_in_date),
         days_in_current_stay |-> DaysSince(d, r.stay_book_in_date)] :
          d \in ExplodedDates(
                  DetentionStartDate(r.detention_book_in_date, earliest_book_out),
                  r.last_detention_date)} : r \in t}

ExpandPanel ==
  /\ pc = "prepared"
  /\ panel' = Expand(df)
  /\ pc' = "done"
  /\ UNCHANGED <<raw, df, clean>>

(* ------------------------------------------------------------------ spec *)

\* the times of one raw row: a detention begins no earlier than its stay and
\* ends no earlier than it begins, a stay ends no earlier than its detentions
RowTimes ==
  {q \in [sbi : Times, sbo : Times \cup {Null}, dbi : Times, dbo : Times \cup {Null}] :
     /\ q.sbi <= q.dbi
     /\ q.dbo # Null => q.dbi <= q.dbo
     /\ q.sbo # Null => (q.dbi <= q.sbo /\ (q.dbo # Null => q.dbo <= q.sbo))}

\* the times of a row that is a whole stay of one detention
StayTimes == {q \in RowTimes : q.sbi = q.dbi /\ q.sbo = q.dbo}

\* the same, or the first detention of a stay that is still open
OpenStayTimes == {q \in RowTimes : q.sbi = q.dbi /\ q.sbo \in {q.dbo, Null}}

StayReasons == {NoReason, Transferred, Removed}
DetentionReasons == {NoReason, Transferred, Removed}

\* one stay of one person with two detentions: the second is at another
\* facility or, when it begins at the same minute, possibly at the same one
InitDetentions ==
  \E q1, q2 \in RowTimes, srr \in StayReasons, d1, d2 \in DetentionReasons :
    \E f2 \in (IF q1.dbi = q2.dbi THEN {1, 2} ELSE {2}) :
      /\ q1.sbi = q2.sbi /\ q1.sbo = q2.sbo
      /\ raw = {RawRow(1, 1, 1, q1.sbi, q1.sbo, srr, q1.dbi, q1.dbo, d1),
                RawRow(1, 1, f2, q2.sbi, q2.sbo, srr, q2.dbi, q2.dbo, d2)}

\* three stays of one person, one detention each
InitStays ==
  \E q1 \in OpenStayTimes, q2, q3 \in StayTimes, s1, s2, s3 \in StayReasons :
    raw = {RawRow(1, 1, 1, q1.sbi, q1.sbo, s1, q1.dbi, q1.dbo, NoReason),
           RawRow(1, 1, 1, q2.sbi, q2.sbo, s2, q2.dbi, q2.dbo, NoReason),
           RawRow(1, 1, 1, q3.sbi, q3.sbo, s3, q3.dbi, q3.dbo, NoReason)}

\* two stays of one person beside a row of another person, of nobody, or of
\* the same person with another birth year
InitPeople ==
  \E q1, q2, q3 \in StayTimes, s1, s2 \in StayReasons,
     p \in {<<2, 1>>, <<Null, 1>>, <<1, 2>>} :
    raw = {RawRow(1, 1, 1, q1.sbi, q1.sbo, s1, q1.dbi, q1.dbo, NoReason),
           RawRow(1, 1, 1, q2.sbi, q2.sbo, s2, q2.dbi, q2.dbo, NoReason),
           RawRow(p[1], p[2], 1, q3.sbi, q3.sbo, NoReason, q3.dbi, q3.dbo, NoReason)}

\* data/detentions_raw.parquet as clean_data.py reads it
Init ==
  /\ InitDetentions \/ InitStays \/ InitPeople
  /\ df = raw
  /\ clean = {}
  /\ panel = {}
  /\ pc = "raw"

Next ==
  \/ CreateIds
  \/ FilterStays
  \/ Deduplicate
  \/ NumberAndBackfill
  \/ ScreenPeople
  \/ MergeTransfers
  \/ RankAndDrop
  \/ ClipDetentions
  \/ WriteClean
  \/ PreparePanel
  \/ ExpandPanel

Spec == Init /\ [][Next]_vars

\* the scenario table: one person, one stay from day 1 to day 10 with two
\* detentions at one facility, the first from day 1 to day 5, the second from
\* day 5 to day 10, at any time of day and with any release reasons
Ticks == 0..(TicksPerDay - 1)

AtDay(d, tick) == d * TicksPerDay + tick

InitC6 ==
  /\ \E i1, o1, i2, o2 \in Ticks, srr \in StayReasons, d1, d2 \in DetentionReasons :
       raw = {RawRow(1, 1, 1, AtDay(1, i1), AtDay(10, o2), srr,
                     AtDay(1, i1), AtDay(5, o1), d1),
              RawRow(1, 1, 1, AtDay(1, i1), AtDay(10, o2), srr,
                     AtDay(5, i2), AtDay(10, o2), d2)}
  /\ df = raw
  /\ clean = {}
  /\ panel = {}
  /\ pc = "raw"

SpecC6 == InitC6 /\ [][Next]_vars

(* ---------------------------------------------------------------- claims *)

People == {r.unique_identifier : r \in raw} \ {Null}

\* C1: every row of the panel has days_in_current_detention >= 0 and
\* days_in_current_stay >= days_in_current_detention.
C1_DayCounters ==
  pc = "done" =>
    \A p \in panel :
      /\ p.days_in_current_detention # Null
      /\ p.days_in_current_detention >= 0
      /\ p.days_in_current_stay # Null
      /\ p.days_in_current_stay >= p.days_in_current_detention

\* C2: in the cleaned table a person has at most one stay with a null stay
\* book-out time, and no stay of the person begins after that stay.
C2_OpenStayIsLast ==
  pc = "cleaned" =>
    \A r, q \in clean :
      (SamePerson(r, q) /\ r.stay_book_out_date_time = Null) =>
        /\ q.stay_id # r.stay_id => q.stay_book_out_date_time # Null
        /\ q.stay_book_in_date_time <= r.stay_book_in_date_time

\* the stays of person u in the raw table
RawStaysOf(u) == StaysOf({r \in raw : r.unique_identifier = u})

\* in an order of u's raw stays by book-in time some stay ends strictly after
\* the next one begins
HasOverlappingStays(u) ==
  \E ord \in SortedSeqs(RawStaysOf(u), StayOrder) :
    \E i \in 1..(Len(ord) - 1) :
      Lt(ord[i + 1].stay_book_in_date_time, ord[i].stay_book_out_date_time)

\* C3: once the overlapping-stays filter has run, a person with two raw stays
\* whose windows overlap has no row left: none in the working table, none in
\* the cleaned table and none in the panel.
C3_OverlapExcluded ==
  pc \notin {"raw", "ids"} =>
    \A u \in People : HasOverlappingStays(u) =>
      \A r \in df \cup clean \cup panel : r.unique_identifier # u

\* C3 witness: the panel is written for a table with a person whose stays
\* overlap and whom the ambiguous-stay filter had kept, beside another person
\* who has panel rows.
C3_OverlapReached ==
  /\ pc = "done"
  /\ panel # {}
  /\ \E u \in People :
       /\ HasOverlappingStays(u)
       /\ u \notin AmbiguousStayPeople({AddDatesAndDetentionId(r) : r \in raw})

\* the working table holds the merged stays
AfterMerge == pc \in {"merged", "ranked", "clipped", "cleaned"}

\* the rows that were in r's stay when the merge began
PreMergeStay(t, r) == {q \in t : q.pre_merge.stay_id = r.pre_merge.stay_id}

\* a is a row of a stay A whose reason was Transferred and b a row of the
\* person's following stay B whose reason was Removed when the merge began
TransferThenRemoved(t, a, b) ==
  /\ SamePerson(a, b)
  /\ b.pre_merge.stay_number = a.pre_merge.stay_number + 1
  /\ \A q \in PreMergeStay(t, a) : q.pre_merge.stay_release_reason = Transferred
  /\ \A q \in PreMergeStay(t, b) : q.pre_merge.stay_release_reason = Removed

\* C4: after the merge every row of a Transferred stay A and of the following
\* Removed stay B carries B's original stay id and the reason Removed, with
\* A's stay book-in time and B's stay book-out time.
C4_TransferChainMerge ==
  AfterMerge =>
    \A a, b \in df : TransferThenRemoved(df, a, b) =>
      \A r \in PreMergeStay(df, a) \cup PreMergeStay(df, b) :
        /\ r.stay_id = b.pre_merge.stay_id
        /\ r.stay_release_reason = Removed
        /\ r.stay_book_in_date_time =
             ColMin({q.pre_merge.stay_book_in_date_time : q \in PreMergeStay(df, a)})
        /\ r.stay_book_out_date_time = b.pre_merge.stay_book_out_date_time

\* C4 witness: the cleaned table holds a row of such a stay A, moved to
\* another stay id, and a row of B.
C4_MergeReached ==
  /\ pc = "cleaned"
  /\ \E a, b \in clean :
       /\ TransferThenRemoved(clean, a, b)
       /\ a.stay_id # a.pre_merge.stay_id
       /\ a.stay_book_out_date_time # a.pre_merge.stay_book_out_date_time

\* C5: after the merge no row has the stay reason Transferred; a row whose
\* stay was Transferred and the person's last keeps its stay id and, when the
\* whole stay was Transferred, has a null reason; a row whose stay was
\* Transferred and not the last has moved to another stay id.
C5_NoTransferredStay ==
  AfterMerge =>
    \A r \in df :
      /\ r.stay_release_reason # Transferred
      /\ r.pre_merge.stay_release_reason = Transferred =>
           IF r.pre_merge.stay_number = r.pre_merge.total_num_stays
           THEN /\ r.stay_id = r.pre_merge.stay_id
                /\ (\A q \in PreMergeStay(df, r) :
                      q.pre_merge.stay_release_reason = Transferred)
                    => r.stay_release_reason = NoReason
           ELSE r.stay_id # r.pre_merge.stay_id

\* C5 witness: the cleaned table holds a row of a Transferred stay that was
\* merged into the following stay, whose reason is not null.
C5_TransferredReached ==
  /\ pc = "cleaned"
  /\ \E r \in clean :
       /\ r.pre_merge.stay_release_reason = Transferred
       /\ r.pre_merge.stay_number < r.pre_merge.total_num_stays
       /\ r.stay_id # r.pre_merge.stay_id
       /\ r.stay_release_reason # NoReason

C7_OneRowPerPersonDay ==
  pc = "done" =>
    \A p, q \in panel :
      (/\ p.unique_identifier = q.unique_identifier
       /\ p.detention_date # Null
       /\ p.detention_date = q.detention_date) => p = q

\* C8: every detention of the cleaned table that has a book-out time has it
\* strictly after its book-in time.
C8_PositiveDuration ==
  pc = "cleaned" =>
    \A r \in clean :
      r.detention_book_out_date_time # Null =>
        r.detention_book_out_date_time > r.detention_book_in_date_time

\* C9: no two detentions of one stay in the panel have the same book-in date.
C9_DistinctBookInDates ==
  pc = "done" =>
    \A p, q \in panel :
      (p.stay_id = q.stay_id /\ p.detention_id # q.detention_id) =>
        p.detention_book_in_date # q.detention_book_in_date

\* C10: each exclusion rule of clean_data, applied to the cleaned table,
\* removes no row: null person id, ambiguous stay end, overlapping stays,
\* multiple birth years, multiple open stays, multiple Transferred stays,
\* zero-duration detentions, cross-stay detention overlap.
C10_Idempotent ==
  pc = "cleaned" =>
    /\ {r \in clean : r.unique_identifier # Null} = clean
    /\ AntiJoinPeople(clean, AmbiguousStayPeople(clean)) = clean
    /\ \A ord \in SortedSeqs(StaysOf(clean), StayOrder) :
         RemoveOverlappingStays(clean, ord) = clean
    /\ AntiJoinPeople(clean, MultipleBirthYearPeople(clean)) = clean
    /\ AntiJoinPeople(clean, MultipleOpenStayPeople(clean)) = clean
    /\ AntiJoinPeople(clean, MultipleTransferPeople(clean)) = clean
    /\ RemoveZeroSecond(clean) = clean
    /\ \A ord \in SortedSeqs(clean, BookInOrder) :
         AntiJoinPeople(clean, CrossStayOverlapPeople(ord)) = clean

\* C11: in the cleaned table previously_removed is true on a row exactly
\* when an earlier stay of the person in the table has the reason Removed;
\* so it is false on a person's first stay and, once true on a stay, true on
\* every later stay of the person.
C11_PreviouslyRemoved ==
  pc = "cleaned" =>
    \A r \in clean :
      r.previously_removed =
        IF \E q \in clean : /\ SamePerson(q, r)
                            /\ q.stay_number < r.stay_number
                            /\ q.stay_release_reason = Removed
        THEN "true" ELSE "false"

\* the detentions of r's stay whose release reason is neither null nor
\* Transferred
SubstantiveDetentions(t, r) ==
  {q \in t : /\ SameStay(q, r)
             /\ q.detention_release_reason # NoReason
             /\ q.detention_release_reason # Transferred}

\* C12: after the backfill a row whose stay reason was null or Transferred,
\* in a stay that has a detention with a reason that is neither, carries the
\* reason of the latest such detention by book-in time; every other row
\* keeps its stay reason.
C12_Backfill ==
  pc = "numbered" =>
    \A r \in df :
      IF /\ r.pre_backfill \in {NoReason, Transferred}
         /\ SubstantiveDetentions(df, r) # {}
      THEN \E q \in SubstantiveDetentions(df, r) :
             /\ \A x \in SubstantiveDetentions(df, r) :
                  x.detention_book_in_date_time <= q.detention_book_in_date_time
             /\ r.stay_release_reason = q.detention_release_reason
      ELSE r.stay_release_reason = r.pre_backfill

\* the panel rows of detention r
PanelRowsOf(r) == {p \in panel : p.detention_id = r.detention_id}

\* C13: every detention that passed the inverted-interval filter has its
\* clipped start no later than its last day, and has exactly one panel row
\* for each date from the start to the last day and no other row.
C13_ExpandedInterval ==
  pc = "done" =>
    \A r \in df :
      LET start == DetentionStartDate(r.detention_book_in_date,
                                      ColMin({q.detention_book_out_date : q \in df}))
      IN /\ start <= r.last_detention_date
         /\ {p.detention_date : p \in PanelRowsOf(r)} = start..r.last_detention_date
         /\ Cardinality(PanelRowsOf(r)) = r.last_detention_date - start + 1

====
